---- MODULE Spec2Model ----
(***************************************************************************)
(* A model of qrnn.py: the QRNN layer (constructor, build, reset_states,   *)
(* get_output_shape_for, call, preprocess_input, step, get_config) and the *)
(* time-axis scan driver _rnn.                                             *)
(*                                                                         *)
(* Tensors.  Every operation of the layer acts independently on each batch *)
(* row and each output channel (the only coupling is the convolution over  *)
(* time and input features), so tensor VALUES are tracked for one batch    *)
(* row, one input feature and one output channel: a tensor with a time     *)
(* axis is a sequence of integers indexed 1..T (Python index t is TLA+     *)
(* index t+1).  Tensor SHAPES keep all their dimensions.                   *)
(*                                                                         *)
(* Numbers.  Inputs, kernels, biases and convolution results are integers. *)
(* sigmoid and tanh return fixed-point values in thousandths (One is 1.0), *)
(* and so are the gate values and the outputs of step.                     *)
(*                                                                         *)
(* Python's None for a dimension is NoneDim; the code only ever tests such *)
(* dimensions for truthiness (`if length:`, `if not input_shape[0]:`,      *)
(* `if self.input_dim:`).                                                  *)
(***************************************************************************)
EXTENDS Integers, Sequences, FiniteSets, TLC

\* ------------------------------------------------------------- bounds
MaxT == 3          \* longest input sequence
MaxW == 2          \* largest window_size
MaxBatch == 2      \* largest batch size
NoneDim == 0       \* Python None in a shape or an optional integer argument

One == 10 * 10 * 10    \* fixed-point 1.0

InVals == {0, 1}       \* values of an input timestep

\* ------------------------------------------------------------- numerics
\* K.sigmoid, in thousandths, on integer arguments.
sigmoid(v) ==
    LET pos(a) == CASE a = 0 -> 500 [] a = 1 -> 731 [] a = 2 -> 881
                    [] a = 3 -> 953 [] a = 4 -> 982 [] a = 5 -> 993
                    [] a = 6 -> 998 [] OTHER -> 999
    IN IF v >= 0 THEN pos(v) ELSE One - pos(-v)

\* K.tanh, in thousandths, on integer arguments.
tanh(v) ==
    LET pos(a) == CASE a = 0 -> 0 [] a = 1 -> 762 [] a = 2 -> 964
                    [] a = 3 -> 995 [] a = 4 -> 999 [] OTHER -> One
    IN IF v >= 0 THEN pos(v) ELSE -pos(-v)

\* activations.get(name): the function object, which carries its __name__.
activations_get(name) == [name |-> name]

\* initializations.get(name): the function object, which carries its __name__.
initializations_get(name) == [name |-> name]

\* self.activation(v)
apply_activation(fn, v) ==
    IF fn.name = "tanh" THEN tanh(v) ELSE v * One    \* "linear"

\* ------------------------------------------------------------- __init__
\* Default values of the keyword arguments of QRNN.__init__.
Defaults ==
    [window_size |-> 2, return_sequences |-> FALSE, go_backwards |-> FALSE,
     stateful |-> FALSE, unroll |-> FALSE, subsample_length |-> 1,
     init |-> "uniform", activation |-> "tanh", dropout |-> 0, bias |-> TRUE,
     input_dim |-> NoneDim, input_length |-> NoneDim]

\* The value __init__ sees for keyword k: the one passed, or the default.
Arg(kwargs, k) == IF k \in DOMAIN kwargs THEN kwargs[k] ELSE Defaults[k]

\* QRNN.__init__(**kwargs): the attributes it sets.  output_dim is required.
\* dropout is a percentage (50 is 0.5).
QRNN_init(kwargs) ==
    [return_sequences |-> Arg(kwargs, "return_sequences"),
     go_backwards     |-> Arg(kwargs, "go_backwards"),
     stateful         |-> Arg(kwargs, "stateful"),
     unroll           |-> Arg(kwargs, "unroll"),
     output_dim       |-> kwargs["output_dim"],
     window_size      |-> Arg(kwargs, "window_size"),
     subsample        |-> <<Arg(kwargs, "subsample_length"), 1>>,
     bias             |-> Arg(kwargs, "bias"),
     init             |-> initializations_get(Arg(kwargs, "init")),
     activation       |-> activations_get(Arg(kwargs, "activation")),
     dropout          |-> Arg(kwargs, "dropout"),
     uses_learning_phase |-> Arg(kwargs, "dropout") # 0,
     supports_masking |-> TRUE,
     input_dim        |-> Arg(kwargs, "input_dim"),
     input_length     |-> Arg(kwargs, "input_length")]

\* self.input_spec = [InputSpec(ndim=3)]: an InputSpec built without a shape
\* has shape None, written <<>> here.
InitialInputSpec == [ndim |-> 3, shape |-> <<>>]

\* ------------------------------------------------------------- _dropout
\* _dropout(x, level): x times a Bernoulli keep/drop tensor (noise, one 0/1
\* entry per element), without the usual rescaling by the retain probability.
\* The level check of lines 28-29 passes for every level the model draws.
_dropout(x, level, noise) == [t \in DOMAIN x |-> x[t] * noise[t]]

\* ------------------------------------------------------------- preprocess_input
\* K.asymmetric_temporal_padding(x, left_pad, right_pad): zero timesteps before
\* and after the sequence.
asymmetric_temporal_padding(x, left_pad, right_pad) ==
    [i \in 1..left_pad |-> 0] \o x \o [i \in 1..right_pad |-> 0]

\* The padding a backward-looking-only layer must not apply: zeros after the
\* sequence instead of before it.
pad_input_right(self, x) ==
    IF self.window_size > 1
    THEN asymmetric_temporal_padding(x, 0, self.window_size - 1)
    ELSE x

\* Lines 273-274: the causal padding of window_size - 1 zero timesteps.
pad_input(self, x) ==
    IF self.window_size > 1
    THEN asymmetric_temporal_padding(x, self.window_size - 1, 0)
    ELSE x

RECURSIVE Dot(_, _, _, _)
\* Sum over k in 1..n of W[Len(W)+1-k] * x[off+k]: one output position of the
\* convolution (Theano's conv2d flips the kernel).
Dot(W, x, off, n) ==
    IF n = 0 THEN 0
    ELSE W[Len(W) + 1 - n] * x[off + n] + Dot(W, x, off, n - 1)

\* K.conv2d(x, W, strides, border_mode='valid') along the time axis:
\* output position t reads x[(t-1)*stride + 1 .. (t-1)*stride + Len(W)].
conv2d(x, W, stride) ==
    LET n == IF Len(x) < Len(W) THEN 0 ELSE (Len(x) - Len(W)) \div stride + 1
    IN [t \in 1..n |-> Dot(W, x, (t - 1) * stride, Len(W))]

\* Lines 291-294: the forget gate on the dropout path.  Both branches of
\* K.in_train_phase apply sigmoid once; the training branch then drops.
forget_dropout(self, f, phase, noise) ==
    LET p == [t \in DOMAIN f |-> sigmoid(f[t])]
    IN IF phase = "train"
       THEN LET d == _dropout([t \in DOMAIN p |-> One - p[t]], self.dropout, noise)
            IN [t \in DOMAIN p |-> One - d[t]]
       ELSE p

\* Lines 272-289: the three raw gate sequences <<z, f, o>>, each the
\* convolution of the padded input with the gate's kernel plus, with bias, the
\* gate's bias.  trainable_weights is <<W_z, W_f, W_o>> followed, with bias,
\* by <<b_z, b_f, b_o>>; a kernel is a sequence of window_size integers and a
\* bias a one-element sequence.
gate_preactivations(self, trainable_weights, x) ==
    LET xp == pad_input(self, x)
        gate(i) ==
            LET output == conv2d(xp, trainable_weights[i], self.subsample[1])
            IN IF self.bias
               THEN [t \in DOMAIN output |-> output[t] + trainable_weights[3 + i][1]]
               ELSE output
    IN <<gate(1), gate(2), gate(3)>>

\* Lines 291-296: with dropout set, the forget sequence is replaced by a
\* probability; outputs are the raw gate sequences.
dropout_forget(self, outputs, phase, noise) ==
    IF self.dropout # 0
    THEN [outputs EXCEPT ![2] = forget_dropout(self, outputs[2], phase, noise)]
    ELSE outputs

\* QRNN.preprocess_input(x): the gate sequences <<z, f, o>> handed to _rnn.
preprocess_input(self, trainable_weights, x, phase, noise) ==
    dropout_forget(self, gate_preactivations(self, trainable_weights, x), phase, noise)

\* ------------------------------------------------------------- step
\* The canonical QRNN gating, which line 308 overwrites: a step whose result
\* is the gated combination of the previous state and the candidate.
step_gated(self, xs, states) ==
    LET prev_output == states[1]
        z == apply_activation(self.activation, xs[1])
        f == IF self.dropout # 0 THEN xs[2] ELSE sigmoid(xs[2])
        o == sigmoid(xs[3])
        combined == (f * prev_output + (One - f) * z) \div One
        gated == (o * combined) \div One
    IN [output |-> gated, new_states |-> <<gated>>]

\* A step that applies sigmoid to the forget value in every configuration.
step_resigmoid(self, xs, states) ==
    LET z == apply_activation(self.activation, xs[1])
        f == sigmoid(xs[2])
        o == sigmoid(xs[3])
        output == z + f + o
    IN [output |-> output, new_states |-> <<output>>]

\* QRNN.step(*inputs): xs are the three gate values of one timestep, states
\* the state list.  Lines 306-307 compute combined and gated from the previous
\* state; line 308 replaces the result by z + f + o.
step(self, xs, states) ==
    LET prev_output == states[1]
        z == apply_activation(self.activation, xs[1])
        f == IF self.dropout # 0 THEN xs[2] ELSE sigmoid(xs[2])
        o == sigmoid(xs[3])
        combined == (f * prev_output + (One - f) * z) \div One
        gated == (o * combined) \div One
        output == z + f + o
    IN [output |-> output, new_states |-> <<output>>]

\* ------------------------------------------------------------- _rnn
\* A scan that ignores go_backwards.
scan_order_forward(T, go_backwards) == [i \in 1..T |-> i]

\* The order in which theano.scan visits the time indices.
scan_order(T, go_backwards) ==
    [i \in 1..T |-> IF go_backwards THEN T + 1 - i ELSE i]

RECURSIVE scan_loop(_, _, _, _, _)
RECURSIVE scan_iteration(_, _, _, _, _)
\* One iteration of theano.scan: r is what step returned at the index visited;
\* _step's [output] + new_states is appended to the accumulated result
\* sequences and the new states feed the rest of the loop.
scan_iteration(self, sequences, order, r, results) ==
    scan_loop(self, sequences, Tail(order), r.new_states,
              [i \in DOMAIN results |->
                  Append(results[i], (<<r.output>> \o r.new_states)[i])])

\* theano.scan's loop over the indices of order, from the given states; the
\* result sequences are in visiting order.
scan_loop(self, sequences, order, states, results) ==
    IF order = <<>> THEN results
    ELSE scan_iteration(self, sequences, order,
             step(self, <<sequences[1][Head(order)], sequences[2][Head(order)],
                          sequences[3][Head(order)]>>, states),
             results)

\* theano.scan(_step, sequences=inputs, outputs_info=[None] + initial_states,
\* go_backwards=go_backwards): one result sequence per entry of outputs_info.
scan(self, sequences, initial_states, go_backwards) ==
    scan_loop(self, sequences, scan_order(Len(sequences[1]), go_backwards),
              initial_states, [i \in 1..(1 + Len(initial_states)) |-> <<>>])

\* x[-1] of a tensor with n entries along its first axis.
index_last(x) ==
    IF Len(x) >= 1 THEN [ok |-> TRUE, v |-> x[Len(x)]] ELSE [ok |-> FALSE, v |-> 0]

\* x[-2] of a tensor with n entries along its first axis: an IndexError when
\* the tensor is evaluated with n < 2.
index_second_last(x) ==
    IF Len(x) >= 2 THEN [ok |-> TRUE, v |-> x[Len(x) - 1]] ELSE [ok |-> FALSE, v |-> 0]

NoMask == "None"

\* Lines 103-117 of _rnn: what it returns for scan's results.  The "API
\* inconsistency" branch takes the last result sequence as outputs and all of
\* them as states.  last_output and the states are graph nodes: an index out
\* of range fails when the node is evaluated (ok).  T.squeeze drops
\* broadcastable axes only; scan's results have none.
rnn_return(results) ==
    [err |-> "none",
     last_output |-> index_second_last(results[Len(results)]),
     outputs |-> results[Len(results)],
     states |-> IF Len(results) > 1
                THEN [i \in DOMAIN results |-> index_second_last(results[i])]
                ELSE <<>>]

\* _rnn(step_function, inputs, initial_states, go_backwards, mask) with
\* step_function = QRNN.step.  `assert "mask is not supported yet!"` asserts a
\* non-empty string and passes, so with a mask the function goes on to line
\* 111, where `outputs` was never bound.
_rnn(self, inputs, initial_states, go_backwards, mask) ==
    IF mask # NoMask
    THEN [err |-> "UnboundLocalError", last_output |-> [ok |-> FALSE, v |-> 0],
          outputs |-> <<>>, states |-> <<>>]
    ELSE rnn_return(scan(self, inputs, initial_states, go_backwards))

\* ------------------------------------------------------------- layer state
\* K.zeros(shape) / np.zeros(shape): a tensor of the given shape filled with 0.
zeros(shape) == [shape |-> shape, fill |-> 0]

\* The None of `self.states = [None]`.
NoneState == [shape |-> <<>>, fill |-> -1]

\* K.zeros((self.output_dim,)): a bias vector (its entry for the tracked
\* channel).
zeros_bias == <<0>>

\* QRNN.reset_states(): the error it raises ("none" if none) and the states
\* attribute afterwards.  shape <<>> is InputSpec.shape = None, which
\* `input_shape[0]` cannot subscript.
reset_states(self, input_spec, has_states, states) ==
    LET input_shape == input_spec.shape
        keep(e) == [err |-> e, has_states |-> has_states, states |-> states]
    IN IF ~self.stateful THEN keep("AssertionError")
       ELSE IF input_shape = <<>> THEN keep("TypeError")
       ELSE IF input_shape[1] = NoneDim THEN keep("Exception: complete input_shape")
       ELSE IF has_states
            THEN IF states[1] = NoneState
                 THEN keep("AttributeError")       \* K.set_value(None, ...)
                 ELSE [err |-> "none", has_states |-> TRUE,
                       states |-> [states EXCEPT ![1] = zeros(<<input_shape[1], self.output_dim>>)]]
            ELSE [err |-> "none", has_states |-> TRUE,
                  states |-> <<zeros(<<input_shape[1], self.output_dim>>)>>]

\* QRNN.build(input_shape): L is the layer's mutable state, W the kernels
\* <<W_z, W_f, W_o>> the initializer draws.  A stateful build calls
\* reset_states first, while input_spec is still the constructor's
\* InputSpec(ndim=3); what it raises ends build before anything is assigned.
build(self, L, input_shape, W) ==
    LET r == reset_states(self, L.input_spec, L.has_states, L.states)
    IN IF self.stateful /\ r.err # "none"
       THEN [L EXCEPT !.err = r.err]
       ELSE [err |-> "none",
             has_states |-> TRUE,
             states |-> IF self.stateful THEN r.states ELSE <<NoneState>>,
             input_spec |-> [ndim |-> 3, shape |-> input_shape],
             trainable_weights |->
                 IF self.bias THEN W \o <<zeros_bias, zeros_bias, zeros_bias>> ELSE W,
             updates |-> L.updates]

\* keras.utils.np_utils.conv_output_length(input_length, filter_size,
\* border_mode, stride) for border_mode 'valid'.
conv_output_length(input_length, filter_size, stride) ==
    ((input_length - filter_size + 1) + stride - 1) \div stride

\* An output length that forgets the causal padding.
output_length_unpadded(self, length) ==
    IF length # NoneDim
    THEN conv_output_length(length, self.window_size, self.subsample[1])
    ELSE length

\* Lines 201-206: the output time length for an input time length.
output_length(self, length) ==
    IF length # NoneDim
    THEN conv_output_length(length + self.window_size - 1, self.window_size,
                            self.subsample[1])
    ELSE length

\* QRNN.get_output_shape_for(input_shape)
get_output_shape_for(self, input_shape) ==
    LET length == output_length(self, input_shape[2])
    IN IF self.return_sequences
       THEN <<input_shape[1], length, self.output_dim>>
       ELSE <<input_shape[1], self.output_dim>>

\* QRNN.get_initial_states(x): one all-zero state per entry of self.states
\* (its value on the tracked row and channel).
get_initial_states(states) == [i \in DOMAIN states |-> 0]

\* QRNN.get_config(): the exported keys.  The regularizer and constraint
\* entries (None in every layer of the model) and the base class's name and
\* trainable entries are left out.
get_config(self) ==
    [output_dim       |-> self.output_dim,
     init             |-> self.init.name,
     window_size      |-> self.window_size,
     subsample_length |-> self.subsample[1],
     activation       |-> self.activation.name,
     bias             |-> self.bias,
     input_dim        |-> self.input_dim,
     input_length     |-> self.input_length]

\* ------------------------------------------------------------- call
NoValue == <<>>

\* _rnn was not reached.
NoRnn ==
    [err |-> "not called", last_output |-> [ok |-> FALSE, v |-> 0],
     outputs |-> <<>>, states |-> <<>>]

\* Lines 256-264 of call: r is what _rnn returned.  The loop of lines 258-259
\* appends one update per entry of r.states and fails at the first entry
\* self.states does not have.  The returned tensor is evaluated by the host.
call_return(self, L, r) ==
    LET fail(e, upd) == [err |-> e, ret |-> NoValue, updates |-> upd, rnn |-> r]
        n == IF Len(r.states) < Len(L.states) THEN Len(r.states) ELSE Len(L.states)
        upd == IF self.stateful
               THEN [i \in 1..n |-> [slot |-> i, value |-> r.states[i]]]
               ELSE L.updates
    IN IF r.err # "none" THEN fail(r.err, L.updates)
       ELSE IF self.stateful /\ Len(r.states) > Len(L.states)
            THEN fail("IndexError", upd)
       ELSE IF self.return_sequences
            THEN [err |-> "none", ret |-> r.outputs, updates |-> upd, rnn |-> r]
       ELSE IF r.last_output.ok
            THEN [err |-> "none", ret |-> r.last_output.v, updates |-> upd, rnn |-> r]
       ELSE fail("IndexError", upd)

\* QRNN.call(x, mask): the error raised ("none" if none), the value of the
\* returned tensor, self.updates afterwards and what _rnn returned.  Without a
\* states attribute both `self.states` (line 245) and `len(self.states)`
\* (line 224) raise AttributeError.
call(self, L, x, mask, phase, noise) ==
    IF ~L.has_states
    THEN [err |-> "AttributeError", ret |-> NoValue, updates |-> L.updates,
          rnn |-> NoRnn]
    ELSE call_return(self, L,
             _rnn(self,
                  preprocess_input(self, L.trainable_weights, x, phase, noise),
                  IF self.stateful
                  THEN [i \in DOMAIN L.states |-> L.states[i].fill]
                  ELSE get_initial_states(L.states),
                  self.go_backwards, mask))

\* ------------------------------------------------------------- inputs
\* Keyword arguments of a layer with every default spelled out.
BaseKwargs ==
    [output_dim |-> 1, window_size |-> 2, return_sequences |-> FALSE,
     go_backwards |-> FALSE, stateful |-> FALSE, unroll |-> FALSE,
     subsample_length |-> 1, init |-> "uniform", activation |-> "tanh",
     dropout |-> 0, bias |-> TRUE, input_dim |-> NoneDim,
     input_length |-> NoneDim]

\* The layers of the model: every combination of the arguments the forward
\* pass branches on, and one layer for each other value of the remaining
\* arguments.
KwargsSpace ==
    {[BaseKwargs EXCEPT !.window_size = w, !.return_sequences = rs,
                        !.go_backwards = gb, !.stateful = st, !.dropout = d,
                        !.subsample_length = sl, !.bias = b] :
        w \in 1..MaxW, rs \in BOOLEAN, gb \in BOOLEAN, st \in BOOLEAN,
        d \in {0, 50}, sl \in {1, 2}, b \in BOOLEAN}
    \cup {[BaseKwargs EXCEPT !.output_dim = 2],
          [BaseKwargs EXCEPT !.output_dim = 2, !.return_sequences = TRUE],
          [BaseKwargs EXCEPT !.output_dim = 2, !.stateful = TRUE],
          [BaseKwargs EXCEPT !.init = "normal"],
          [BaseKwargs EXCEPT !.activation = "linear"],
          [BaseKwargs EXCEPT !.activation = "linear", !.dropout = 50],
          [BaseKwargs EXCEPT !.unroll = TRUE],
          [BaseKwargs EXCEPT !.input_dim = 1, !.input_length = MaxT]}

\* Input shapes (batch, time, features); NoneDim is an unknown dimension.
Shapes == {<<b, t, 1>> : b \in 0..MaxBatch, t \in 0..MaxT}

\* Input shapes handed to build.
BuildShapes == {<<b, t, 1>> : b \in {NoneDim, MaxBatch}, t \in {NoneDim, MaxT}}

\* Kernels <<W_z, W_f, W_o>> the initializer may draw for a window size.
KernelChoices(w) ==
    {<<[k \in 1..w |-> 1], [k \in 1..w |-> 1], [k \in 1..w |-> 1]>>,
     <<[k \in 1..w |-> k], [k \in 1..w |-> -k], [k \in 1..w |-> 1]>>}

\* Input sequences of every length 1..MaxT.
Inputs(T) == [1..T -> InVals]

\* Keep/drop tensors the random stream may draw for n timesteps.
NoiseChoices(n) ==
    {[t \in 1..n |-> 1], [t \in 1..n |-> 0], [t \in 1..n |-> t % 2]}

\* ------------------------------------------------------------- state machine
VARIABLES
    self,               \* the attributes __init__ sets
    input_spec,         \* self.input_spec[0]
    has_states,         \* hasattr(self, 'states')
    states,             \* self.states
    trainable_weights,  \* self.trainable_weights
    updates,            \* self.updates
    op,                 \* the last operation and its arguments
    ret,                \* what it returned
    err,                \* what it raised ("none" if nothing)
    rnn                 \* what _rnn returned in the last call

vars == <<self, input_spec, has_states, states, trainable_weights, updates,
          op, ret, err, rnn>>

Op(name, x, mask, phase, noise, shape) ==
    [name |-> name, x |-> x, mask |-> mask, phase |-> phase, noise |-> noise,
     shape |-> shape]

\* The layer's mutable state as one record.
Layer ==
    [err |-> "none", has_states |-> has_states, states |-> states,
     input_spec |-> input_spec, trainable_weights |-> trainable_weights,
     updates |-> updates]

\* No operation in progress.
Idle == Op("idle", <<>>, NoMask, "test", <<>>, <<>>)

Init ==
    /\ self \in {QRNN_init(kw) : kw \in KwargsSpace}
    /\ input_spec = InitialInputSpec
    /\ has_states = FALSE
    /\ states = <<>>
    /\ trainable_weights = <<>>
    /\ updates = <<>>
    /\ op = Idle
    /\ ret = NoValue
    /\ err = "none"
    /\ rnn = NoRnn

Build ==
    /\ op = Idle
    /\ \E input_shape \in BuildShapes, W \in KernelChoices(self.window_size) :
        LET L == build(self, Layer, input_shape, W)
        IN /\ input_spec' = L.input_spec
           /\ has_states' = L.has_states
           /\ states' = L.states
           /\ trainable_weights' = L.trainable_weights
           /\ op' = Op("build", <<>>, NoMask, "test", <<>>, input_shape)
           /\ ret' = NoValue
           /\ err' = L.err
           /\ rnn' = NoRnn
           /\ UNCHANGED <<self, updates>>

ResetStates ==
    LET r == reset_states(self, input_spec, has_states, states)
    IN /\ op = Idle
       /\ has_states' = r.has_states
       /\ states' = r.states
       /\ op' = Op("reset_states", <<>>, NoMask, "test", <<>>, <<>>)
       /\ ret' = NoValue
       /\ err' = r.err
       /\ rnn' = NoRnn
       /\ UNCHANGED <<self, input_spec, trainable_weights, updates>>

GetOutputShapeFor ==
    \E input_shape \in Shapes :
        /\ op = Idle
        /\ op' = Op("get_output_shape_for", <<>>, NoMask, "test", <<>>, input_shape)
        /\ ret' = get_output_shape_for(self, input_shape)
        /\ err' = "none"
        /\ rnn' = NoRnn
        /\ UNCHANGED <<self, input_spec, has_states, states, trainable_weights, updates>>

\* The assignments of a forward pass whose call returned c.
CallDone(x, mask, phase, noise, c) ==
    /\ op' = Op("call", x, mask, phase, noise, <<>>)
    /\ ret' = c.ret
    /\ err' = c.err
    /\ updates' = c.updates
    /\ rnn' = c.rnn
    /\ UNCHANGED <<self, input_spec, has_states, states, trainable_weights>>

\* A forward pass: the host calls call(x, mask) and evaluates the returned
\* tensor.  The learning phase is fed only to layers that use it.
Call ==
    /\ op = Idle
    /\ \E T \in 1..MaxT, mask \in {NoMask, "mask"},
          phase \in (IF self.uses_learning_phase THEN {"train", "test"} ELSE {"test"}) :
         \E x \in Inputs(T),
            noise \in (IF self.dropout # 0 /\ phase = "train"
                       THEN NoiseChoices(output_length(self, T)) ELSE {<<>>}) :
             CallDone(x, mask, phase, noise, call(self, Layer, x, mask, phase, noise))

\* get_config() followed by QRNN(**config): ret is the new layer's attributes.
FromConfig ==
    /\ op = Idle
    /\ op' = Op("from_config", <<>>, NoMask, "test", <<>>, <<>>)
    /\ ret' = QRNN_init(get_config(self))
    /\ err' = "none"
    /\ rnn' = NoRnn
    /\ UNCHANGED <<self, input_spec, has_states, states, trainable_weights, updates>>

\* The caller has taken the result (or the exception) of the operation; the
\* layer keeps what the operation assigned.
Return ==
    /\ op # Idle
    /\ op' = Idle
    /\ ret' = NoValue
    /\ err' = "none"
    /\ rnn' = NoRnn
    /\ UNCHANGED <<self, input_spec, has_states, states, trainable_weights, updates>>

Next ==
    \/ Return
    \/ Build
    \/ ResetStates
    \/ GetOutputShapeFor
    \/ Call
    \/ FromConfig

Spec == Init /\ [][Next]_vars

\* ------------------------------------------------------------- properties
\* The last operation was a forward pass in which _rnn ran the scan.
Scanned == op.name = "call" /\ rnn.err = "none"

\* The configuration the causality and last-output claims are stated for.
PlainForward ==
    self.subsample[1] = 1 /\ self.dropout = 0 /\ ~self.go_backwards

\* What _rnn returns for input y in place of the last call's input, every
\* other argument of the call kept.
RnnOn(y) ==
    _rnn(self, preprocess_input(self, trainable_weights, y, op.phase, op.noise),
         get_initial_states(states), self.go_backwards, NoMask)

\* y and x agree on the timesteps lo..hi that they have.
Agree(x, y, lo, hi) == \A u \in (lo..hi) \cap DOMAIN x : x[u] = y[u]

\* C1: with stride 1, dropout 0 and go_backwards false, the tensor call
\* returns with return_sequences=False equals the last timestep of the tensor
\* it returns with return_sequences=True on the same input and parameters.
C1_LastOutputIsLastTimestep ==
    (op.name = "call" /\ op.mask = NoMask /\ err = "none" /\ PlainForward
     /\ ~self.return_sequences)
    => LET full == call([self EXCEPT !.return_sequences = TRUE], Layer,
                        op.x, op.mask, op.phase, op.noise)
       IN full.err = "none" /\ ret = full.ret[Len(full.ret)]

\* C2: with subsample_length 1 and a known time length T >= 1,
\* get_output_shape_for((B, T, F)) is (B, T, output_dim) when return_sequences
\* is true and (B, output_dim) otherwise, for every B and window_size.
C2_OutputLength ==
    (op.name = "get_output_shape_for" /\ self.subsample[1] = 1 /\ op.shape[2] >= 1)
    => ret = IF self.return_sequences
             THEN <<op.shape[1], op.shape[2], self.output_dim>>
             ELSE <<op.shape[1], self.output_dim>>

\* C2 witness: a shape query with the longest input and the widest window on
\* a layer that returns sequences reports the input's time length.
C2_Witness ==
    /\ op.name = "get_output_shape_for"
    /\ self.subsample[1] = 1 /\ self.return_sequences
    /\ self.window_size = MaxW /\ op.shape[2] = MaxT /\ op.shape[1] = MaxBatch
    /\ ret = <<MaxBatch, MaxT, self.output_dim>>

\* C3: causality with go_backwards false (stride 1, dropout 0): an input that
\* agrees with the last call's input on all timesteps <= t gives the same
\* output at timestep t.
C3_Causality ==
    (Scanned /\ PlainForward)
    => \A y \in Inputs(Len(op.x)) : \A t \in 1..Len(op.x) :
           Agree(op.x, y, 1, t) => RnnOn(y).outputs[t] = rnn.outputs[t]

\* C3 witness: a forward scan with a window wider than 1 over the longest
\* input, and an input that differs only at the last timestep and changes only
\* the last output.
C3_Witness ==
    /\ Scanned /\ PlainForward
    /\ self.window_size > 1 /\ Len(op.x) = MaxT
    /\ \E y \in Inputs(MaxT) :
          /\ Agree(op.x, y, 1, MaxT - 1) /\ y[MaxT] # op.x[MaxT]
          /\ RnnOn(y).outputs[MaxT] # rnn.outputs[MaxT]
          /\ \A t \in 1..(MaxT - 1) : RnnOn(y).outputs[t] = rnn.outputs[t]

\* C4: a non-null mask that reaches _rnn makes it fail with a NotImplemented
\* error raised at the mask check.
C4_MaskNotImplemented ==
    (op.name = "call" /\ op.mask # NoMask /\ rnn.err # "not called")
    => rnn.err = "NotImplementedError"

\* C5: a layer constructed from get_config() of a layer has every attribute
\* of the original, return_sequences, go_backwards, stateful and dropout
\* included.
C5_ConfigRoundTrip ==
    op.name = "from_config" => ret = self

\* C6: build of a stateful layer succeeds exactly when the batch size of the
\* input shape is known: then it leaves one persisted state, a zero tensor of
\* shape (B, output_dim); otherwise it fails with the error about the missing
\* batch size and allocates no parameters.
C6_StatefulBuild ==
    (op.name = "build" /\ self.stateful)
    => IF op.shape[1] # NoneDim
       THEN /\ err = "none"
            /\ has_states
            /\ states = <<zeros(<<op.shape[1], self.output_dim>>)>>
       ELSE /\ err = "Exception: complete input_shape"
            /\ trainable_weights = <<>>

\* C7: a stateful forward call gets one final state per initial state from
\* _rnn (one) and registers exactly one update, of state slot 0 with the state
\* of the final processed step.
C7_OneStateUpdate ==
    (op.name = "call" /\ self.stateful /\ op.mask = NoMask)
    => /\ rnn.err = "none"
       /\ Len(rnn.states) = 1
       /\ updates = <<[slot |-> 1, value |-> index_last(rnn.outputs)]>>

\* The output for timestep t in the result sequence of a scan over T
\* timesteps: scan's results are in visiting order.
ForTimestep(outputs, T, t) ==
    outputs[IF self.go_backwards THEN T + 1 - t ELSE t]

\* C8 as stated: causality in reverse with go_backwards true (stride 1,
\* dropout 0): an input that agrees with the last call's input on all
\* timesteps >= t gives the same output for timestep t.
C8_ReverseCausality ==
    (Scanned /\ self.go_backwards /\ self.subsample[1] = 1 /\ self.dropout = 0)
    => \A y \in Inputs(Len(op.x)) : \A t \in 1..Len(op.x) :
           Agree(op.x, y, t, Len(op.x))
           => ForTimestep(RnnOn(y).outputs, Len(op.x), t)
              = ForTimestep(rnn.outputs, Len(op.x), t)

\* C8 amended: with go_backwards true (stride 1, dropout 0) an input that
\* agrees with the last call's input on the timesteps t-w+1..t gives the same
\* output for timestep t, which the result holds at index T-1-t.
C8_BackwardsWindow ==
    (Scanned /\ self.go_backwards /\ self.subsample[1] = 1 /\ self.dropout = 0)
    => \A y \in Inputs(Len(op.x)) : \A t \in 1..Len(op.x) :
           Agree(op.x, y, t - self.window_size + 1, t)
           => RnnOn(y).outputs[Len(op.x) + 1 - t] = rnn.outputs[Len(op.x) + 1 - t]

\* C8 witness: a backwards scan with a window wider than 1 over the longest
\* input, and an input that differs only at the first timestep and changes the
\* output for the second.
C8_Witness ==
    /\ Scanned /\ self.go_backwards /\ self.subsample[1] = 1 /\ self.dropout = 0
    /\ self.window_size > 1 /\ Len(op.x) = MaxT
    /\ \E y \in Inputs(MaxT) :
          /\ Agree(op.x, y, 2, MaxT) /\ y[1] # op.x[1]
          /\ RnnOn(y).outputs[MaxT - 1] # rnn.outputs[MaxT - 1]

\* The raw gate sequences of the last call.
Pre == gate_preactivations(self, trainable_weights, op.x)

\* The state step returns at the i-th visited timestep when the forget value
\* there is F: activation(candidate) + F + sigmoid(output).
StepSum(i, F) ==
    LET t == scan_order(Len(Pre[1]), self.go_backwards)[i]
    IN apply_activation(self.activation, Pre[1][t]) + F + sigmoid(Pre[3][t])

\* The timestep visited i-th.
Visited(i) == scan_order(Len(Pre[1]), self.go_backwards)[i]

\* C9 as stated: at every timestep step returns (s, [s]) with
\* s = activation(candidate) + sigmoid(forget) + sigmoid(output), in every
\* configuration and phase.
C9_ForgetIsSigmoid ==
    Scanned
    => /\ \A i \in 1..Len(rnn.outputs) :
             rnn.outputs[i] = StepSum(i, sigmoid(Pre[2][Visited(i)]))
       /\ \A k \in 1..Len(rnn.states) : rnn.states[k] = rnn.last_output

\* C9 amended: as stated, except that in training phase with dropout > 0 the
\* forget value is 1 - m * (1 - sigmoid(forget)) for the keep/drop tensor m:
\* the sigmoid where m keeps and 1 where it drops.
C9_ForgetOnceThroughSigmoid ==
    Scanned
    => /\ \A i \in 1..Len(rnn.outputs) :
             rnn.outputs[i] =
                 StepSum(i, IF self.dropout # 0 /\ op.phase = "train"
                            THEN One - op.noise[Visited(i)]
                                       * (One - sigmoid(Pre[2][Visited(i)]))
                            ELSE sigmoid(Pre[2][Visited(i)]))
       /\ \A k \in 1..Len(rnn.states) : rnn.states[k] = rnn.last_output

\* C9 witness: a training-phase scan of a dropout layer over at least two
\* timesteps in which the keep/drop tensor keeps one timestep and drops
\* another.
C9_Witness ==
    /\ Scanned /\ self.dropout # 0 /\ op.phase = "train"
    /\ Len(rnn.outputs) >= 2
    /\ \E i, j \in 1..Len(op.noise) : op.noise[i] = 1 /\ op.noise[j] = 0

\* Initial states to compare a scan against.
StateVals == {-One, 0, 500, 2 * One}

\* C10: with dropout 0, the whole result of the scan (output sequence, last
\* output and final states) is the same from every initial state.
C10_InitialStateIrrelevant ==
    (Scanned /\ self.dropout = 0)
    => \A s0 \in StateVals :
           _rnn(self, preprocess_input(self, trainable_weights, op.x, op.phase, op.noise),
                <<s0>>, self.go_backwards, NoMask) = rnn

\* C10 witness: a call that returned the whole sequence of a scan over the
\* longest input, with dropout 0.
C10_Witness ==
    /\ Scanned /\ self.dropout = 0 /\ err = "none"
    /\ self.return_sequences /\ Len(op.x) = MaxT /\ ret = rnn.outputs

====
